---------------------------- MODULE Spec2Model ----------------------------
(***************************************************************************)
(* A model of src/common_util/poly.py: the dual-basis Polynomial value     *)
(* type (arithmetic, shift, fft/ifft, barycentric_eval, coeff_eval) and    *)
(* the InterpolationPoly builder.                                          *)
(*                                                                         *)
(* Scalars are the integers 0 .. field_modulus-1.  Polynomial objects live *)
(* in a heap (a sequence of records); every call names its operands by     *)
(* heap index, writes back what the call leaves in each operand and        *)
(* appends the Polynomial it returns.                                      *)
(***************************************************************************)
EXTENDS Integers, Sequences, FiniteSets, TLC

VARIABLES
    field_modulus,  \* Scalar.field_modulus of the field in use
    heap,           \* the Polynomial objects alive, by object index
    made,           \* made[k]: the call that returned heap[k]
    ret,            \* the last call: what was called, on what, and its outcome
    X, Y,           \* InterpolationPoly.X / .Y
    pc,             \* position inside vanishing_poly_diff ("idle" outside of it)
    v_poly,         \* vanishing_poly_diff's local v_poly (heap index, 0: unset)
    v_diff_poly,    \* vanishing_poly_diff's local v_diff_poly (heap index)
    loop_i          \* vanishing_poly_diff's loop variable i (0-based)

vars == <<field_modulus, heap, made, ret, X, Y, pc, v_poly, v_diff_poly, loop_i>>

-----------------------------------------------------------------------------
(* Bounds of the model.                                                    *)

\* FFT domains have 2^k points, k <= MaxLog.
MaxLog == 2
\* The operands of the arithmetic calls have at most MaxLen entries.
MaxLen == 3
\* A divisor has at most MaxDivisor coefficients, a dividend one more.
MaxDivisor == 2
\* InterpolationPoly is built from at most MaxPts points.
MaxPts == 3
\* An fft / ifft chain stops when the heap holds MaxHeap Polynomial objects.
MaxHeap == 3
\* Input coefficients and evaluations are drawn from 0 .. MaxCoeff.
MaxCoeff == 4

-----------------------------------------------------------------------------
(* Generic helpers.                                                        *)

Max(S) == CHOOSE x \in S : \A y \in S : y <= x

Min2(a, b) == IF a < b THEN a ELSE b

Max2(a, b) == IF a > b THEN a ELSE b

RECURSIVE Pow2(_)
Pow2(k) == IF k = 0 THEN 1 ELSE 2 * Pow2(k - 1)

\* All sequences over S of length exactly n.
SeqsOfLen(S, n) == [1..n -> S]

\* All sequences over S of length lo..hi.
SeqsUpTo(S, lo, hi) == UNION {SeqsOfLen(S, n) : n \in lo..hi}

RECURSIVE SeqSum(_)
SeqSum(s) == IF Len(s) = 0 THEN 0 ELSE Head(s) + SeqSum(Tail(s))

-----------------------------------------------------------------------------
(* Scalar: the field capability (src.common_util.curve, not part of the    *)
(* sources at hand), modelled from its contract: exact arithmetic modulo   *)
(* the prime field_modulus.                                                *)

\* The fields the model is run over: the prime moduli.
Moduli == {5, 13}

RECURSIVE PowMod(_, _, _)
PowMod(a, e, p) == IF e = 0 THEN 1 % p ELSE (a * PowMod(a, e - 1, p)) % p

\* The multiplicative order of a nonzero element of the field of modulus p.
OrderMod(a, p) == CHOOSE k \in 1 .. p - 1 :
                    /\ PowMod(a, k, p) = 1
                    /\ \A j \in 1 .. k - 1 : PowMod(a, j, p) # 1

\* The canonical generator of each field's multiplicative group: the least.
GeneratorOf == [p \in Moduli |->
                  CHOOSE g \in 1 .. p - 1 :
                    /\ OrderMod(g, p) = p - 1
                    /\ \A h \in 1 .. g - 1 : OrderMod(h, p) # p - 1]

Field == 0 .. field_modulus - 1

Scalar(n) == n % field_modulus

FAdd(a, b) == (a + b) % field_modulus

FSub(a, b) == (a - b) % field_modulus

FNeg(a) == (0 - a) % field_modulus

FMul(a, b) == (a * b) % field_modulus

FPow(a, e) == PowMod(a, e, field_modulus)

\* The inverse of a nonzero field element.
FInv(a) == FPow(a, field_modulus - 2)

\* Division; the caller checks the divisor: division by zero raises.
FDiv(a, b) == FMul(a, FInv(b))

Generator == GeneratorOf[field_modulus]

\* The canonical generator of the subgroup of order n (n divides p - 1).
root_of_unity(n) == FPow(Generator, (field_modulus - 1) \div n)

\* [1, w, w^2, ..., w^(n-1)]
roots_of_unity(n) == [i \in 1..n |-> FPow(root_of_unity(n), i - 1)]

\* The sizes an FFT domain can have in this field.
DomainSizes == {n \in {Pow2(k) : k \in 0..MaxLog} : (field_modulus - 1) % n = 0}

-----------------------------------------------------------------------------
(* Python list slicing and numpy.polynomial.polynomial, as poly.py uses    *)
(* them on object arrays of Scalars.                                       *)

\* The position a slice bound k denotes in a list of length n.
PyBound(k, n) == IF k < 0 THEN Max2(k + n, 0) ELSE Min2(k, n)

\* s[k:]
PyFrom(s, k) == SubSeq(s, PyBound(k, Len(s)) + 1, Len(s))

\* s[:k]
PyUpTo(s, k) == SubSeq(s, 1, PyBound(k, Len(s)))

\* s[::2]
Evens(s) == [i \in 1 .. ((Len(s) + 1) \div 2) |-> s[2 * i - 1]]

\* s[1::2]
Odds(s) == [i \in 1 .. (Len(s) \div 2) |-> s[2 * i]]

\* s[::-1]
Reverse(s) == [i \in 1 .. Len(s) |-> s[Len(s) + 1 - i]]

\* polyutils.trimseq: drop trailing zeros, keeping at least one entry.
trimseq(s) ==
    IF Len(s) = 0 \/ s[Len(s)] # 0 THEN s
    ELSE LET nz == {i \in 1 .. Len(s) : s[i] # 0}
         IN  SubSeq(s, 1, IF nz = {} THEN 1 ELSE Max(nz))

\* P.polyadd(c1, c2): both trimmed, the shorter added into the longer, trimmed.
polyadd(a, b) ==
    LET c1 == trimseq(a)
        c2 == trimseq(b)
        n  == Max2(Len(c1), Len(c2))
    IN  trimseq([i \in 1..n |->
            FAdd(IF i <= Len(c1) THEN c1[i] ELSE 0,
                 IF i <= Len(c2) THEN c2[i] ELSE 0)])

\* P.polysub(c1, c2)
polysub(a, b) ==
    LET c1 == trimseq(a)
        c2 == trimseq(b)
        n  == Max2(Len(c1), Len(c2))
    IN  trimseq([i \in 1..n |->
            FSub(IF i <= Len(c1) THEN c1[i] ELSE 0,
                 IF i <= Len(c2) THEN c2[i] ELSE 0)])

\* numpy.convolve(c1, c2): out[k] = sum over i + j = k of c1[i] * c2[j].
convolve(c1, c2) ==
    [k \in 1 .. Len(c1) + Len(c2) - 1 |->
        SeqSum([i \in 1 .. Len(c1) |->
            IF k + 1 - i >= 1 /\ k + 1 - i <= Len(c2)
            THEN c1[i] * c2[k + 1 - i] ELSE 0]) % field_modulus]

\* P.polymul(c1, c2)
polymul(a, b) == trimseq(convolve(trimseq(a), trimseq(b)))

\* polydiv_loop adding where it has to subtract.
RECURSIVE polydiv_loop_adding(_, _, _, _)
polydiv_loop_adding(c1, c2, i, j) ==
    IF i < 0 THEN c1
    ELSE polydiv_loop_adding(
            [k \in 1 .. Len(c1) |->
                IF k >= i + 1 /\ k <= j
                THEN FAdd(c1[k], FMul(c2[k - i], c1[j + 1]))
                ELSE c1[k]],
            c2, i - 1, j - 1)

\* The long-division loop of P.polydiv: c2 is the divisor without its leading
\* coefficient, already divided by it; i and j are 0-based as in numpy.
RECURSIVE polydiv_loop(_, _, _, _)
polydiv_loop(c1, c2, i, j) ==
    IF i < 0 THEN c1
    ELSE polydiv_loop(
            [k \in 1 .. Len(c1) |->
                IF k >= i + 1 /\ k <= j
                THEN FSub(c1[k], FMul(c2[k - i], c1[j + 1]))
                ELSE c1[k]],
            c2, i - 1, j - 1)

\* P.polydiv(c1, c2): [quo, rem], or raises ZeroDivisionError.
polydiv(a, b) ==
    LET c1  == trimseq(a)
        c2  == trimseq(b)
        lc1 == Len(c1)
        lc2 == Len(c2)
        scl == c2[lc2]
    IN  IF scl = 0 THEN [ok |-> FALSE, err |-> "ZeroDivisionError"]
        ELSE IF lc1 < lc2
        THEN [ok |-> TRUE, quo |-> <<0>>, rem |-> c1]
        ELSE IF lc2 = 1
        THEN [ok |-> TRUE, quo |-> [k \in 1..lc1 |-> FDiv(c1[k], scl)],
              rem |-> <<0>>]
        ELSE LET dlen == lc1 - lc2
                 d    == [k \in 1 .. lc2 - 1 |-> FDiv(c2[k], scl)]
                 r    == polydiv_loop(c1, d, dlen, lc1 - 1)
             IN  [ok |-> TRUE,
                  quo |-> [k \in 1 .. dlen + 1 |-> FDiv(r[lc2 - 1 + k], scl)],
                  rem |-> trimseq(SubSeq(r, 1, lc2 - 1))]

-----------------------------------------------------------------------------
(* class Polynomial.  A call's effect is a record: out, what the call      *)
(* returns or raises, and self / other, what the call leaves in its        *)
(* operands.                                                               *)

LAGRANGE == "LAGRANGE"

MONOMIAL == "MONOMIAL"

Basis == {LAGRANGE, MONOMIAL}

Polynomial(values, basis) == [values |-> values, basis |-> basis]

Returned(v) == [ok |-> TRUE, val |-> v, err |-> "none"]

Raised(e) == [ok |-> FALSE, val |-> <<>>, err |-> e]

Effect(out, self, other) == [out |-> out, self |-> self, other |-> other]

\* Polynomial.__eq__
eq(self, other) == (self.basis = other.basis) /\ (self.values = other.values)

\* The indices of zip(a, b).
ZipDomain(a, b) == 1 .. Min2(Len(a), Len(b))

\* Polynomial + Polynomial
add(self, other) ==
    IF self.basis # other.basis
    THEN Effect(Raised("AssertionError"), self, other)
    ELSE IF self.basis = LAGRANGE
    THEN IF Len(self.values) # Len(other.values)
         THEN Effect(Raised("AssertionError"), self, other)
         ELSE Effect(Returned(Polynomial(
                        [i \in ZipDomain(self.values, other.values) |->
                            FAdd(self.values[i], other.values[i])],
                        self.basis)), self, other)
    ELSE Effect(Returned(Polynomial(polyadd(self.values, other.values),
                                    self.basis)), self, other)

\* Polynomial + Scalar
add_scalar(self, other) ==
    IF self.basis = LAGRANGE
    THEN Effect(Returned(Polynomial([i \in 1 .. Len(self.values) |->
                    FAdd(self.values[i], other)], self.basis)), self, other)
    ELSE Effect(Returned(Polynomial(polyadd(self.values, <<other>>),
                                    self.basis)), self, other)

\* Polynomial - Polynomial
sub(self, other) ==
    IF self.basis # other.basis
    THEN Effect(Raised("AssertionError"), self, other)
    ELSE IF self.basis = LAGRANGE
    THEN IF Len(self.values) # Len(other.values)
         THEN Effect(Raised("AssertionError"), self, other)
         ELSE Effect(Returned(Polynomial(
                        [i \in ZipDomain(self.values, other.values) |->
                            FSub(self.values[i], other.values[i])],
                        self.basis)), self, other)
    ELSE Effect(Returned(Polynomial(polysub(self.values, other.values),
                                    self.basis)), self, other)

\* Polynomial - Scalar
sub_scalar(self, other) ==
    IF self.basis = LAGRANGE
    THEN Effect(Returned(Polynomial([i \in 1 .. Len(self.values) |->
                    FSub(self.values[i], other)], self.basis)), self, other)
    ELSE Effect(Returned(Polynomial(polysub(self.values, <<other>>),
                                    self.basis)), self, other)

\* mul without the assertion on the bases.
mul_unchecked(self, other) ==
    IF self.basis = LAGRANGE
    THEN IF Len(self.values) # Len(other.values)
         THEN Effect(Raised("AssertionError"), self, other)
         ELSE Effect(Returned(Polynomial(
                        [i \in ZipDomain(self.values, other.values) |->
                            FMul(self.values[i], other.values[i])],
                        self.basis)), self, other)
    ELSE Effect(Returned(Polynomial(polymul(self.values, other.values),
                                    self.basis)), self, other)

\* mul as a copy of add with the operator left unchanged.
mul_as_add(self, other) == add(self, other)

\* Polynomial * Polynomial
mul(self, other) ==
    IF self.basis # other.basis
    THEN Effect(Raised("AssertionError"), self, other)
    ELSE IF self.basis = LAGRANGE
    THEN IF Len(self.values) # Len(other.values)
         THEN Effect(Raised("AssertionError"), self, other)
         ELSE Effect(Returned(Polynomial(
                        [i \in ZipDomain(self.values, other.values) |->
                            FMul(self.values[i], other.values[i])],
                        self.basis)), self, other)
    ELSE Effect(Returned(Polynomial(polymul(self.values, other.values),
                                    self.basis)), self, other)

\* Polynomial * Scalar
mul_scalar(self, other) ==
    IF self.basis = LAGRANGE
    THEN Effect(Returned(Polynomial([i \in 1 .. Len(self.values) |->
                    FMul(self.values[i], other)], self.basis)), self, other)
    ELSE Effect(Returned(Polynomial(polymul(self.values, <<other>>),
                                    self.basis)), self, other)

\* What Polynomial / Polynomial returns or raises.  The remainder rx is an
\* array: `assert rx == [0]` passes for one zero entry, fails for one nonzero
\* entry and raises ValueError (an array's truth value) for more than one.
truediv_out(self, other) ==
    IF self.basis # other.basis THEN Raised("AssertionError")
    ELSE IF self.basis = LAGRANGE
    THEN IF Len(self.values) # Len(other.values) THEN Raised("AssertionError")
         ELSE IF \E i \in 1 .. Len(other.values) : other.values[i] = 0
         THEN Raised("ZeroDivisionError")
         ELSE Returned(Polynomial(
                    [i \in ZipDomain(self.values, other.values) |->
                        FDiv(self.values[i], other.values[i])],
                    self.basis))
    ELSE LET d == polydiv(self.values, other.values)
         IN  IF ~d.ok THEN Raised(d.err)
             ELSE IF Len(d.rem) # 1 THEN Raised("ValueError")
             ELSE IF d.rem[1] # 0 THEN Raised("AssertionError")
             ELSE Returned(Polynomial(d.quo, self.basis))

\* truediv with the long division done in place, on self.values itself: the
\* dividend is left holding the remainder.
truediv_in_place(self, other) ==
    Effect(truediv_out(self, other),
           IF self.basis = MONOMIAL /\ other.basis = MONOMIAL
                /\ polydiv(self.values, other.values).ok
           THEN Polynomial(polydiv(self.values, other.values).rem, self.basis)
           ELSE self,
           other)

\* Polynomial / Polynomial
truediv(self, other) == Effect(truediv_out(self, other), self, other)

\* Polynomial / Scalar
truediv_scalar(self, other) ==
    IF self.basis = LAGRANGE
    THEN IF other = 0 /\ Len(self.values) > 0
         THEN Effect(Raised("ZeroDivisionError"), self, other)
         ELSE Effect(Returned(Polynomial([i \in 1 .. Len(self.values) |->
                        FDiv(self.values[i], other)], self.basis)), self, other)
    ELSE LET d == polydiv(self.values, <<other>>)
         IN  IF ~d.ok THEN Effect(Raised(d.err), self, other)
             ELSE Effect(Returned(Polynomial(d.quo, self.basis)), self, other)

\* Polynomial.shift(shift)
shift(self, k) ==
    IF self.basis # LAGRANGE THEN Effect(Raised("AssertionError"), self, k)
    ELSE IF ~(k < Len(self.values))
    THEN Effect(Raised("AssertionError"), self, k)
    ELSE Effect(Returned(Polynomial(PyFrom(self.values, k) \o PyUpTo(self.values, k),
                                    self.basis)), self, k)

\* fft_combine with the sign of the second half lost.
fft_combine_same_sign(n, L, R, roots) ==
    [k \in 1 .. n |->
        IF k <= Min2(Len(L), Len(R))
        THEN (L[k] + R[k] * roots[k]) % field_modulus
        ELSE IF k > Len(L) /\ k - Len(L) <= Min2(Len(L), Len(R))
        THEN (L[k - Len(L)] + R[k - Len(L)] * roots[k - Len(L)]) % field_modulus
        ELSE 0]

\* The combine loop of _fft: o[i] and o[i + len(L)] for each (x, y) of zip(L, R).
fft_combine(n, L, R, roots) ==
    [k \in 1 .. n |->
        IF k <= Min2(Len(L), Len(R))
        THEN (L[k] + R[k] * roots[k]) % field_modulus
        ELSE IF k > Len(L) /\ k - Len(L) <= Min2(Len(L), Len(R))
        THEN (L[k - Len(L)] - R[k - Len(L)] * roots[k - Len(L)]) % field_modulus
        ELSE 0]

\* _fft(vals, modulus, roots_of_unity)
RECURSIVE fft_rec(_, _)
fft_rec(vals, roots) ==
    IF Len(vals) = 1 THEN vals
    ELSE fft_combine(Len(vals),
                     fft_rec(Evens(vals), Evens(roots)),
                     fft_rec(Odds(vals), Evens(roots)),
                     roots)

\* reversed_roots with the reordering forgotten.
reversed_roots_same_order(roots) == roots

\* [roots[0]] + roots[1:][::-1]
reversed_roots(roots) == <<roots[1]>> \o Reverse(Tail(roots))

\* Polynomial.fft(inv), for a length roots_of_unity is defined on.
fft(self, inv) ==
    LET n     == Len(self.values)
        roots == roots_of_unity(n)
    IN  IF inv
        THEN IF self.basis # LAGRANGE
             THEN Effect(Raised("AssertionError"), self, inv)
             ELSE IF n % field_modulus = 0
             THEN Effect(Raised("ZeroDivisionError"), self, inv)
             ELSE LET invlen == FDiv(1, Scalar(n))
                      o      == fft_rec(self.values, reversed_roots(roots))
                  IN  Effect(Returned(Polynomial(
                                [i \in 1 .. Len(o) |-> FMul(Scalar(o[i]), invlen)],
                                MONOMIAL)), self, inv)
        ELSE IF self.basis # MONOMIAL
             THEN Effect(Raised("AssertionError"), self, inv)
             ELSE Effect(Returned(Polynomial(fft_rec(self.values, roots),
                                             LAGRANGE)), self, inv)

\* Polynomial.ifft()
ifft(self) == fft(self, TRUE)

\* bary_term with the factor root forgotten.
bary_term_no_root(value, root, x) == FDiv(value, FSub(x, root))

\* value * root / (x - root), one term of barycentric_eval's sum.
bary_term(value, root, x) == FDiv(FMul(value, root), FSub(x, root))

\* Polynomial.barycentric_eval(x), for a length roots_of_unity is defined on.
barycentric_eval(self, x) ==
    IF self.basis # LAGRANGE THEN Effect(Raised("AssertionError"), self, x)
    ELSE LET order == Len(self.values)
             roots == roots_of_unity(order)
             elem  == x % field_modulus
             hits  == {i \in 1 .. order : roots[i] = elem}
         IN  IF hits # {}
             THEN Effect(Returned(self.values[CHOOSE i \in hits :
                                        \A j \in hits : i <= j]), self, x)
             ELSE IF order % field_modulus = 0
             THEN Effect(Raised("ZeroDivisionError"), self, x)
             ELSE Effect(Returned(
                    FMul(FDiv(FSub(FPow(Scalar(x), order), 1), Scalar(order)),
                         SeqSum([i \in 1 .. order |->
                            bary_term(self.values[i], roots[i], x)])
                            % field_modulus)),
                    self, x)

\* The loop of coeff_eval from index i (1-based) on: [result, x_pow].
RECURSIVE coeff_eval_loop(_, _, _, _, _)
coeff_eval_loop(coeffs, x, i, result, x_pow) ==
    IF i > Len(coeffs) THEN result
    ELSE coeff_eval_loop(coeffs, x, i + 1,
                         FAdd(result, FMul(coeffs[i], FMul(x_pow, x))),
                         FMul(x_pow, x))

\* Polynomial.coeff_eval(x)
coeff_eval(self, x) ==
    IF self.basis # MONOMIAL THEN Effect(Raised("AssertionError"), self, x)
    ELSE Effect(Returned(coeff_eval_loop(self.values, x, 2, self.values[1],
                                         Scalar(1))),
                self, x)

-----------------------------------------------------------------------------
(* class InterpolationPoly.  Indices are 1-based here: lagrange_poly(Xs, i) *)
(* is the code's lagrange_poly(i - 1).                                     *)

\* root_poly with the sign of a lost: X + a.
root_poly_plus(x_val) == Polynomial(<<x_val, Scalar(1)>>, MONOMIAL)

\* f(X) = X - a
root_poly(x_val) == Polynomial(<<FNeg(x_val), Scalar(1)>>, MONOMIAL)

\* f(X) = a
const_poly(x_val) == Polynomial(<<x_val>>, MONOMIAL)

\* vanishing_poly's v_poly after k rounds of its loop.
RECURSIVE vanishing_poly_loop(_, _)
vanishing_poly_loop(Xs, k) ==
    IF k = 0 THEN const_poly(Scalar(1))
    ELSE mul(vanishing_poly_loop(Xs, k - 1), root_poly(Xs[k])).out.val

\* InterpolationPoly.vanishing_poly()
vanishing_poly(Xs) == vanishing_poly_loop(Xs, Len(Xs))

\* One round of vanishing_poly_diff's loop, v_diff_poly += v_poly / root_poly(x):
\* what the division leaves in v_poly, and the new v_diff_poly or the error.
diff_round(vp, vdiff, x) ==
    LET d == truediv(vp, root_poly(x))
    IN  [v_poly |-> d.self,
         out    |-> IF d.out.ok THEN add(vdiff, d.out.val).out ELSE d.out]

\* vanishing_poly_diff's v_diff_poly after k rounds of its loop over v_poly
\* vp, or the error.
RECURSIVE vanishing_poly_diff_loop(_, _, _)
vanishing_poly_diff_loop(vp, Xs, k) ==
    IF k = 0 THEN Returned(const_poly(Scalar(0)))
    ELSE LET prev == vanishing_poly_diff_loop(vp, Xs, k - 1)
         IN  IF ~prev.ok THEN prev
             ELSE diff_round(vp, prev.val, Xs[k]).out

\* InterpolationPoly.vanishing_poly_diff()
vanishing_poly_diff(Xs) == vanishing_poly_diff_loop(vanishing_poly(Xs), Xs, Len(Xs))

\* lagrange_divide without the division by v_diff_poly_at_i.
lagrange_divide_unscaled(vp, vdiff, x_val) ==
    LET d == truediv(vp, root_poly(x_val))
    IN  [v_poly |-> d.self, out |-> d.out]

\* The return statement of lagrange_poly: v_poly / root_poly / v_diff_poly_at_i.
\* What the first division leaves in v_poly, and the result or the error.
lagrange_divide(vp, vdiff, x_val) ==
    LET at_i == coeff_eval(vdiff, x_val).out.val
        d    == truediv(vp, root_poly(x_val))
    IN  [v_poly |-> d.self,
         out    |-> IF d.out.ok THEN truediv_scalar(d.out.val, at_i).out ELSE d.out]

\* InterpolationPoly.lagrange_poly(i)
lagrange_poly(Xs, i) ==
    LET vdiff == vanishing_poly_diff(Xs)
    IN  IF ~vdiff.ok THEN vdiff
        ELSE lagrange_divide(vanishing_poly(Xs), vdiff.val, Xs[i]).out

\* poly's local poly after k rounds of its loop, or the error.
RECURSIVE poly_loop(_, _, _)
poly_loop(Xs, Ys, k) ==
    IF k = 0 THEN Returned(const_poly(Scalar(0)))
    ELSE LET prev == poly_loop(Xs, Ys, k - 1)
             lp   == lagrange_poly(Xs, k)
         IN  IF ~prev.ok THEN prev
             ELSE IF ~lp.ok THEN lp
             ELSE add(prev.val, mul_scalar(lp.val, Ys[k]).out.val).out

\* InterpolationPoly.poly()
poly(Xs, Ys) == poly_loop(Xs, Ys, Len(Xs))

-----------------------------------------------------------------------------
(* The calls a client makes, as actions on the heap.                       *)

NoCall == [op |-> "new", self |-> 0, other |-> 0, res |-> 0,
           out |-> Returned(<<>>)]

\* The values a client passes in: 0 .. MaxCoeff, within the field.
Coeffs == 0 .. Min2(MaxCoeff, field_modulus - 1)

\* A call on heap[i] (and heap[j] when otherIsObject) with effect e: the
\* operands are left as the call leaves them and a returned Polynomial is a
\* new object.
Call(op, i, j, otherIsObject, returnsObject, e) ==
    LET h1  == [heap EXCEPT ![i] = e.self]
        h2  == IF otherIsObject THEN [h1 EXCEPT ![j] = e.other] ELSE h1
        new == e.out.ok /\ returnsObject
    IN  /\ heap' = IF new THEN Append(h2, e.out.val) ELSE h2
        /\ made' = IF new THEN Append(made, [op |-> op, self |-> i, other |-> j])
                   ELSE made
        /\ ret' = [op |-> op, self |-> i, other |-> j,
                   res |-> IF new THEN Len(heap) + 1 ELSE 0, out |-> e.out]
        /\ UNCHANGED <<field_modulus, X, Y, pc, v_poly, v_diff_poly, loop_i>>

\* heap[i] has a length the field has a roots-of-unity domain for.  fft,
\* ifft and barycentric_eval are called on such Polynomials only: the contract
\* of roots_of_unity says nothing about other lengths.
HasDomain(i) == Len(heap[i].values) \in DomainSizes

Fft(i) ==
    /\ pc = "idle" /\ HasDomain(i)
    /\ Call("fft", i, 0, FALSE, TRUE, fft(heap[i], FALSE))

Ifft(i) ==
    /\ pc = "idle" /\ HasDomain(i)
    /\ Call("ifft", i, 0, FALSE, TRUE, ifft(heap[i]))

Add(i, j) ==
    /\ pc = "idle"
    /\ Call("add", i, j, TRUE, TRUE, add(heap[i], heap[j]))

Sub(i, j) ==
    /\ pc = "idle"
    /\ Call("sub", i, j, TRUE, TRUE, sub(heap[i], heap[j]))

Mul(i, j) ==
    /\ pc = "idle"
    /\ Call("mul", i, j, TRUE, TRUE, mul(heap[i], heap[j]))

Truediv(i, j) ==
    /\ pc = "idle"
    /\ Call("truediv", i, j, TRUE, TRUE, truediv(heap[i], heap[j]))

AddScalar(i, c) ==
    /\ pc = "idle"
    /\ Call("add_scalar", i, c, FALSE, TRUE, add_scalar(heap[i], c))

SubScalar(i, c) ==
    /\ pc = "idle"
    /\ Call("sub_scalar", i, c, FALSE, TRUE, sub_scalar(heap[i], c))

MulScalar(i, c) ==
    /\ pc = "idle"
    /\ Call("mul_scalar", i, c, FALSE, TRUE, mul_scalar(heap[i], c))

TruedivScalar(i, c) ==
    /\ pc = "idle"
    /\ Call("truediv_scalar", i, c, FALSE, TRUE, truediv_scalar(heap[i], c))

Shift(i, k) ==
    /\ pc = "idle"
    /\ Call("shift", i, k, FALSE, TRUE, shift(heap[i], k))

BarycentricEval(i, x) ==
    /\ pc = "idle"
    /\ heap[i].basis = LAGRANGE => HasDomain(i)
    /\ Call("barycentric_eval", i, x, FALSE, FALSE, barycentric_eval(heap[i], x))

CoeffEval(i, x) ==
    /\ pc = "idle"
    /\ Call("coeff_eval", i, x, FALSE, FALSE, coeff_eval(heap[i], x))

\* A whole method of InterpolationPoly, called from outside.
Method(op, i, out) ==
    /\ pc = "idle"
    /\ X # <<>>
    /\ heap' = IF out.ok THEN Append(heap, out.val) ELSE heap
    /\ made' = IF out.ok THEN Append(made, [op |-> op, self |-> 0, other |-> i])
               ELSE made
    /\ ret' = [op |-> op, self |-> 0, other |-> i,
               res |-> IF out.ok THEN Len(heap) + 1 ELSE 0, out |-> out]
    /\ UNCHANGED <<field_modulus, X, Y, pc, v_poly, v_diff_poly, loop_i>>

VanishingPoly == Method("vanishing_poly", 0, Returned(vanishing_poly(X)))

VanishingPolyDiff == Method("vanishing_poly_diff", 0, vanishing_poly_diff(X))

LagrangePoly(i) == Method("lagrange_poly", i, lagrange_poly(X, i))

Poly == Method("poly", 0, poly(X, Y))

\* vanishing_poly_diff, statement by statement.  Its locals v_poly and
\* v_diff_poly refer to heap objects.
DiffBegin ==
    /\ pc = "idle" /\ X # <<>>
    /\ heap' = heap \o <<vanishing_poly(X), const_poly(Scalar(0))>>
    /\ made' = made \o <<[op |-> "vanishing_poly", self |-> 0, other |-> 0],
                         [op |-> "const_poly", self |-> 0, other |-> 0]>>
    /\ v_poly' = Len(heap) + 1
    /\ v_diff_poly' = Len(heap) + 2
    /\ loop_i' = 0
    /\ pc' = "diff"
    /\ ret' = [op |-> "vanishing_poly_diff", self |-> 0, other |-> 0, res |-> 0,
               out |-> Returned(<<>>)]
    /\ UNCHANGED <<field_modulus, X, Y>>

\* v_diff_poly += v_poly / self.root_poly(self.X[i])
DiffRound ==
    /\ pc = "diff" /\ loop_i < Len(X)
    /\ LET r  == diff_round(heap[v_poly], heap[v_diff_poly], X[loop_i + 1])
           h1 == [heap EXCEPT ![v_poly] = r.v_poly]
       IN  IF r.out.ok
           THEN /\ heap' = Append(h1, r.out.val)
                /\ made' = Append(made, [op |-> "add", self |-> v_diff_poly,
                                         other |-> 0])
                /\ v_diff_poly' = Len(heap) + 1
                /\ loop_i' = loop_i + 1
                /\ UNCHANGED <<pc, ret>>
           ELSE /\ heap' = h1
                /\ pc' = "idle"
                /\ ret' = [ret EXCEPT !.out = r.out]
                /\ UNCHANGED <<made, v_diff_poly, loop_i>>
    /\ UNCHANGED <<field_modulus, X, Y, v_poly>>

\* return v_diff_poly
DiffReturn ==
    /\ pc = "diff" /\ loop_i = Len(X)
    /\ pc' = "idle"
    /\ ret' = [ret EXCEPT !.res = v_diff_poly, !.out = Returned(heap[v_diff_poly])]
    /\ UNCHANGED <<field_modulus, heap, made, X, Y, v_poly, v_diff_poly, loop_i>>

\* lagrange_poly(i - 1) up to its return statement: v_poly and v_diff_poly
\* are built (when vanishing_poly_diff raises, so does lagrange_poly).
LagrangeBegin(i) ==
    /\ pc = "idle" /\ X # <<>>
    /\ LET vdiff == vanishing_poly_diff(X)
       IN  IF vdiff.ok
           THEN /\ heap' = heap \o <<vanishing_poly(X), vdiff.val>>
                /\ made' = made \o
                      <<[op |-> "vanishing_poly", self |-> 0, other |-> 0],
                        [op |-> "vanishing_poly_diff", self |-> 0, other |-> 0]>>
                /\ v_poly' = Len(heap) + 1
                /\ v_diff_poly' = Len(heap) + 2
                /\ loop_i' = i
                /\ pc' = "lagrange"
                /\ ret' = [op |-> "lagrange_poly", self |-> 0, other |-> i,
                           res |-> 0, out |-> Returned(<<>>)]
           ELSE /\ ret' = [op |-> "lagrange_poly", self |-> 0, other |-> i,
                           res |-> 0, out |-> vdiff]
                /\ UNCHANGED <<heap, made, v_poly, v_diff_poly, loop_i, pc>>
    /\ UNCHANGED <<field_modulus, X, Y>>

\* return v_poly / root_poly / v_diff_poly_at_i
LagrangeReturn ==
    /\ pc = "lagrange"
    /\ LET r  == lagrange_divide(heap[v_poly], heap[v_diff_poly], X[loop_i])
           h1 == [heap EXCEPT ![v_poly] = r.v_poly]
       IN  /\ heap' = IF r.out.ok THEN Append(h1, r.out.val) ELSE h1
           /\ made' = IF r.out.ok
                      THEN Append(made, [op |-> "lagrange_poly", self |-> 0,
                                         other |-> loop_i])
                      ELSE made
           /\ ret' = [ret EXCEPT !.res = IF r.out.ok THEN Len(heap) + 1 ELSE 0,
                                 !.out = r.out]
    /\ pc' = "idle"
    /\ UNCHANGED <<field_modulus, X, Y, v_poly, v_diff_poly, loop_i>>

-----------------------------------------------------------------------------
(* Specifications.                                                         *)

\* The state after the client has constructed the Polynomials objs and
\* InterpolationPoly(xs, ys) (xs = ys = <<>>: no InterpolationPoly).
Start(objs, xs, ys) ==
    /\ heap = objs
    /\ made = [k \in 1 .. Len(objs) |-> [op |-> "new", self |-> 0, other |-> 0]]
    /\ ret = NoCall
    /\ X = xs /\ Y = ys
    /\ pc = "idle" /\ v_poly = 0 /\ v_diff_poly = 0 /\ loop_i = 0

\* The toy field of the concrete scenario.
SmallModuli == {5}

\* The entries of the operands of the frame specification.
FrameVals == {0, 1}

\* The coefficients of the factors of the multiplication specification.
MulVals == {0, 1, 2}

\* The target values of the interpolation specification.
InterpVals == {0, 2}

\* The Scalars handed to the calls of the frame specification.
FrameArgs == {0, 2}

\* The arguments handed to shift.
ShiftArgs == (0 - (MaxLen + 2)) .. (MaxLen + 1)

FramePolys == {Polynomial(v, b) : v \in SeqsUpTo(FrameVals, 1, MaxLen), b \in Basis}

\* Spec: any one call on two Polynomials of either basis (ret.op = "new": no
\* call made yet), or vanishing_poly_diff / lagrange_poly statement by
\* statement on an InterpolationPoly.
Init ==
    /\ field_modulus \in SmallModuli
    /\ \/ \E a \in FramePolys : \E b \in FramePolys : Start(<<a, b>>, <<>>, <<>>)
       \/ \E n \in 1 .. MaxPts : \E xs \in SeqsOfLen(Field, n) :
             Start(<<>>, xs, [k \in 1 .. n |-> 0])

Next ==
    \/ /\ ret.op = "new"
       /\ \E i \in 1 .. Len(heap) : \E j \in 1 .. Len(heap) :
             Add(i, j) \/ Sub(i, j) \/ Mul(i, j) \/ Truediv(i, j)
    \/ /\ ret.op = "new"
       /\ \E i \in 1 .. Len(heap) : \E c \in FrameArgs :
             AddScalar(i, c) \/ SubScalar(i, c) \/ MulScalar(i, c)
                \/ TruedivScalar(i, c)
    \/ /\ ret.op = "new"
       /\ \E i \in 1 .. Len(heap) : \E k \in ShiftArgs : Shift(i, k)
    \/ /\ ret.op = "new"
       /\ \E i \in 1 .. Len(heap) : Fft(i) \/ Ifft(i)
    \/ /\ ret.op = "new"
       /\ \E i \in 1 .. Len(heap) : \E x \in FrameArgs :
             BarycentricEval(i, x) \/ CoeffEval(i, x)
    \/ /\ ret.op = "new"
       /\ DiffBegin \/ (\E i \in 1 .. Len(X) : LagrangeBegin(i))
    \/ DiffRound
    \/ DiffReturn
    \/ LagrangeReturn

Spec == Init /\ [][Next]_vars

\* SpecFft: fft / ifft chains from one Polynomial of a domain's length.
InitFft ==
    /\ field_modulus \in Moduli
    /\ \E n \in DomainSizes : \E v \in SeqsOfLen(Coeffs, n) : \E b \in Basis :
          Start(<<Polynomial(v, b)>>, <<>>, <<>>)

NextFft ==
    /\ Len(heap) < MaxHeap
    /\ \E i \in 1 .. Len(heap) : Fft(i) \/ Ifft(i)

SpecFft == InitFft /\ [][NextFft]_vars

\* SpecEval: one evaluation of one Polynomial of a domain's length.
NextEval ==
    /\ ret.op = "new"
    /\ \E x \in Field : BarycentricEval(1, x) \/ CoeffEval(1, x)

SpecEval == InitFft /\ [][NextEval]_vars

\* SpecMul: p and q of one domain's length are transformed by fft and the
\* transforms multiplied.
InitMul ==
    /\ field_modulus \in Moduli
    /\ \E n \in DomainSizes :
         \E p \in SeqsOfLen(MulVals, n) : \E q \in SeqsOfLen(MulVals, n) :
            Start(<<Polynomial(p, MONOMIAL), Polynomial(q, MONOMIAL)>>, <<>>, <<>>)

NextMul ==
    \/ Len(heap) = 2 /\ Fft(1)
    \/ Len(heap) = 3 /\ Fft(2)
    \/ Len(heap) = 4 /\ \E i \in 3 .. 4 : \E j \in 3 .. 4 : Mul(i, j)

SpecMul == InitMul /\ [][NextMul]_vars

\* SpecDiv: one division of two MONOMIAL Polynomials.
InitDiv ==
    /\ field_modulus \in SmallModuli
    /\ \E a \in SeqsUpTo(Field, 1, MaxDivisor + 1) :
         \E b \in SeqsUpTo(Field, 1, MaxDivisor) :
            Start(<<Polynomial(a, MONOMIAL), Polynomial(b, MONOMIAL)>>, <<>>, <<>>)

NextDiv ==
    /\ ret.op = "new"
    /\ Truediv(1, 2) \/ Truediv(2, 1)

SpecDiv == InitDiv /\ [][NextDiv]_vars

\* SpecInterp: one method call on InterpolationPoly(X, Y).
InitInterp ==
    /\ field_modulus \in SmallModuli
    /\ \E n \in 1 .. MaxPts :
         \E xs \in SeqsOfLen(Field, n) : \E ys \in SeqsOfLen(InterpVals, n) :
            Start(<<>>, xs, ys)

NextInterp ==
    /\ ret.op = "new"
    /\ \/ VanishingPoly
       \/ VanishingPolyDiff
       \/ \E i \in 1 .. Len(X) : LagrangePoly(i)
       \/ Poly

SpecInterp == InitInterp /\ [][NextInterp]_vars

-----------------------------------------------------------------------------
(* Properties.                                                             *)

\* The value at x of the polynomial with the given coefficients, by its
\* definition: the sum of coeffs[i] * x^i.
EvalAt(coeffs, x) ==
    SeqSum([i \in 1 .. Len(coeffs) |->
        coeffs[i] * PowMod(x, i - 1, field_modulus)]) % field_modulus

\* C1: fft of a MONOMIAL Polynomial of a domain's length n succeeds and returns
\* a LAGRANGE Polynomial of length n whose values[i] is the evaluation of the
\* coefficient polynomial at roots_of_unity(n)[i]; over the field of modulus
\* 5, where roots_of_unity(4) = [1, 2, 4, 3], fft of [1,2,3,4] is [0,4,3,2].
C1_FftEvaluates ==
    /\ (ret.op = "fft" /\ heap[ret.self].basis = MONOMIAL) => ret.out.ok
    /\ \A k \in 1 .. Len(heap) :
          made[k].op = "fft" =>
            LET p == heap[made[k].self]
                n == Len(p.values)
            IN  /\ p.basis = MONOMIAL
                /\ heap[k].basis = LAGRANGE
                /\ Len(heap[k].values) = n
                /\ \A i \in 1 .. n :
                      heap[k].values[i] = EvalAt(p.values, roots_of_unity(n)[i])
                /\ (field_modulus = 5 /\ p.values = <<1, 2, 3, 4>>) =>
                      /\ roots_of_unity(4) = <<1, 2, 4, 3>>
                      /\ heap[k].values = <<0, 4, 3, 2>>

\* fft has been applied to [1,2,3,4] over the field of modulus 5.
C1_Witness ==
    \E k \in 1 .. Len(heap) :
        /\ made[k].op = "fft"
        /\ field_modulus = 5
        /\ heap[made[k].self].values = <<1, 2, 3, 4>>

\* C2: ifft applied to the result of fft(p), p MONOMIAL of a domain's length,
\* succeeds and returns a MONOMIAL Polynomial with p's coefficients at every
\* index, trailing zeros included.
C2_RoundTrip ==
    /\ (ret.op = "ifft" /\ made[ret.self].op = "fft") => ret.out.ok
    /\ \A k \in 1 .. Len(heap) :
          (made[k].op = "ifft" /\ made[made[k].self].op = "fft") =>
            LET p == heap[made[made[k].self].self]
            IN  /\ heap[k].basis = MONOMIAL
                /\ heap[k].values = p.values
                /\ eq(heap[k], p)

\* A round trip of a length-4 coefficient vector with a trailing zero.
C2_Witness ==
    \E k \in 1 .. Len(heap) :
        /\ made[k].op = "ifft" /\ made[made[k].self].op = "fft"
        /\ Len(heap[k].values) = 4
        /\ heap[k].values[4] = 0 /\ heap[k].values[2] # 0
        /\ field_modulus = 13

\* The entries of xs are pairwise distinct.
Distinct(xs) == \A i \in 1 .. Len(xs) : \A j \in 1 .. Len(xs) : xs[i] = xs[j] => i = j

\* C3: barycentric_eval of a LAGRANGE Polynomial p of a domain's length at x
\* succeeds; at the domain root roots_of_unity(n)[i] it returns p.values[i], at
\* any other x it returns ifft(p).coeff_eval(x).
C3_BarycentricEval ==
    (ret.op = "barycentric_eval" /\ heap[ret.self].basis = LAGRANGE) =>
        LET p     == heap[ret.self]
            n     == Len(p.values)
            x     == ret.other
            roots == roots_of_unity(n)
        IN  /\ ret.out.ok
            /\ \A i \in 1 .. n : roots[i] = x => ret.out.val = p.values[i]
            /\ (\A i \in 1 .. n : roots[i] # x) =>
                  ret.out.val = coeff_eval(ifft(p).out.val, x).out.val

\* barycentric_eval at a point outside a domain of 4 roots, with a nonzero
\* result.
C3_Witness ==
    /\ ret.op = "barycentric_eval" /\ ret.out.ok
    /\ heap[ret.self].basis = LAGRANGE
    /\ Len(heap[ret.self].values) = 4
    /\ \A i \in 1 .. 4 : roots_of_unity(4)[i] # ret.other
    /\ ret.other # 0
    /\ ret.out.val # 0

\* C4: for pairwise distinct X (n = len(X) >= 1), poly() returns a MONOMIAL
\* Polynomial of at most n coefficients with coeff_eval(X[i]) = Y[i] for all i.
C4_Interpolation ==
    (ret.op = "poly" /\ Distinct(X)) =>
        /\ ret.out.ok
        /\ ret.out.val.basis = MONOMIAL
        /\ Len(ret.out.val.values) >= 1
        /\ Len(ret.out.val.values) <= Len(X)
        /\ \A i \in 1 .. Len(X) :
              /\ coeff_eval(ret.out.val, X[i]).out.val = Y[i]
              /\ EvalAt(ret.out.val.values, X[i]) = Y[i]

\* poly() through three distinct points, not all targets equal.
C4_Witness ==
    /\ ret.op = "poly" /\ ret.out.ok
    /\ Len(X) = 3 /\ Distinct(X)
    /\ Y[1] # Y[2] /\ Y[3] # 0
    /\ Len(ret.out.val.values) = 3

\* C5: for pairwise distinct X, lagrange_poly(i) succeeds and its coeff_eval at
\* X[j] is 1 for j = i and 0 for every other j.
C5_Orthogonality ==
    (ret.op = "lagrange_poly" /\ Distinct(X)) =>
        /\ ret.out.ok
        /\ \A j \in 1 .. Len(X) :
              coeff_eval(ret.out.val, X[j]).out.val
                 = IF j = ret.other THEN 1 ELSE 0

\* lagrange_poly of the middle one of three distinct points.
C5_Witness ==
    /\ ret.op = "lagrange_poly" /\ ret.out.ok
    /\ Len(X) = 3 /\ Distinct(X)
    /\ ret.other = 2

\* The quotients of a by b: the q of the one length a quotient can have with
\* q * b = a.
Quotients(a, b) ==
    {q \in SeqsOfLen(Field, Max2(1, Len(trimseq(a)) - Len(trimseq(b)) + 1)) :
        polymul(q, b) = trimseq(a)}

\* C6: for MONOMIAL a and nonzero b, a / b returns q when a = q * b for a
\* polynomial q, and fails, returning no Polynomial, when there is no such q.
C6_ExactDivision ==
    (/\ ret.op = "truediv"
     /\ \E k \in 1 .. Len(heap[ret.other].values) : heap[ret.other].values[k] # 0) =>
        LET a == heap[ret.self].values
            b == heap[ret.other].values
            Q == Quotients(a, b)
        IN  IF Q # {}
            THEN /\ ret.out.ok
                 /\ ret.out.val.basis = MONOMIAL
                 /\ \A q \in Q : ret.out.val.values = q
                 /\ heap[ret.res] = ret.out.val
            ELSE /\ ~ret.out.ok
                 /\ ret.res = 0
                 /\ Len(heap) = 2

\* An exact division by a divisor of degree 1 with a quotient of degree 1.
C6_Witness ==
    /\ ret.op = "truediv" /\ ret.out.ok
    /\ Len(trimseq(heap[ret.other].values)) = 2
    /\ Len(ret.out.val.values) = 2
    /\ heap[ret.other].values[1] # 0

\* The last call failed: it raised and returned nothing.
Failed == ~ret.out.ok /\ ret.res = 0 /\ ret.out.val = <<>> /\ Len(heap) = 2

\* C7: +, -, *, / on two Polynomials of different bases fail; fft on LAGRANGE,
\* ifft on MONOMIAL, barycentric_eval on MONOMIAL and coeff_eval on LAGRANGE
\* fail; no Polynomial or Scalar is returned.
C7_NoCoercion ==
    /\ (/\ ret.op \in {"add", "sub", "mul", "truediv"}
        /\ heap[ret.self].basis # heap[ret.other].basis) => Failed
    /\ (ret.op = "fft" /\ heap[ret.self].basis = LAGRANGE) => Failed
    /\ (ret.op = "ifft" /\ heap[ret.self].basis = MONOMIAL) => Failed
    /\ (ret.op = "barycentric_eval" /\ heap[ret.self].basis = MONOMIAL) => Failed
    /\ (ret.op = "coeff_eval" /\ heap[ret.self].basis = LAGRANGE) => Failed

\* A product of a LAGRANGE and a MONOMIAL Polynomial of one length was asked for.
C7_Witness ==
    /\ ret.op = "mul"
    /\ heap[ret.self].basis = LAGRANGE /\ heap[ret.other].basis = MONOMIAL
    /\ Len(heap[ret.self].values) = Len(heap[ret.other].values)

PolyPolyOps == {"add", "sub", "mul", "truediv"}

PolyScalarOps == {"add_scalar", "sub_scalar", "mul_scalar", "truediv_scalar"}

EvalOps == {"barycentric_eval", "coeff_eval"}

\* One step from the unprimed to the primed state leaves every object of the
\* heap as it was, and a call that returns a Polynomial returns a new object
\* of the basis the rule gives.
FrameStep ==
    /\ Len(heap') >= Len(heap)
    /\ \A k \in 1 .. Len(heap) : heap'[k] = heap[k]
    /\ (ret.op = "new" /\ ret'.op \in PolyPolyOps \cup PolyScalarOps
                                  \cup EvalOps \cup {"shift", "fft", "ifft"}) =>
          IF ret'.out.ok /\ ret'.op \notin EvalOps
          THEN /\ ret'.res = Len(heap) + 1
               /\ Len(heap') = Len(heap) + 1
               /\ heap'[ret'.res] = ret'.out.val
               /\ heap'[ret'.res].basis =
                     IF ret'.op = "fft" THEN LAGRANGE
                     ELSE IF ret'.op = "ifft" THEN MONOMIAL
                     ELSE heap[ret'.self].basis
               /\ ret'.op = "fft" => heap[ret'.self].basis = MONOMIAL
               /\ ret'.op = "ifft" => heap[ret'.self].basis = LAGRANGE
               /\ ret'.op \in PolyPolyOps =>
                     heap'[ret'.res].basis = heap[ret'.other].basis
          ELSE heap' = heap
    /\ (pc = "diff" /\ pc' = "diff") =>
          /\ v_poly' = v_poly
          /\ heap'[v_poly'] = heap[v_poly]
    /\ pc = "lagrange" => heap'[v_poly] = heap[v_poly]

\* C8: every call, failing or not, leaves the values and the basis of its
\* operands unchanged and returns a new Polynomial, of the operands' basis
\* for the arithmetic and shift, of the other basis for fft and ifft; the
\* vanishing polynomial of vanishing_poly_diff and lagrange_poly is the same
\* before and after each division.
C8_Immutable == [][FrameStep]_vars

\* vanishing_poly_diff has divided the vanishing polynomial of three points
\* three times.
C8_Witness ==
    /\ pc = "diff" /\ Len(X) = 3 /\ loop_i = 3
    /\ Len(heap[v_poly].values) = 4

\* C9: shift(k) on a LAGRANGE Polynomial of length n: every accepted k < n gives
\* the LAGRANGE Polynomial with values[i] = self.values[(i + k) mod n]; every
\* k >= n fails.
C9_ShiftRotates ==
    (ret.op = "shift" /\ heap[ret.self].basis = LAGRANGE) =>
        LET v == heap[ret.self].values
            n == Len(v)
            k == ret.other
        IN  /\ k >= n => ~ret.out.ok /\ ret.res = 0
            /\ (k < n /\ ret.out.ok) =>
                  /\ ret.out.val.basis = LAGRANGE
                  /\ Len(ret.out.val.values) = n
                  /\ \A i \in 0 .. n - 1 :
                        ret.out.val.values[i + 1] = v[((i + k) % n) + 1]

\* The degree of the polynomial with the given coefficients (0 for zero).
Deg(v) == Len(trimseq(v)) - 1

\* v zero-padded to n entries.
Pad(v, n) == [i \in 1 .. n |-> IF i <= Len(v) THEN v[i] ELSE 0]

\* C10: for MONOMIAL p and q of one domain's length n, fft(p) * fft(q) is fft
\* of the coefficient product p * q zero-padded to n, and its ifft has the
\* coefficients of p * q, when deg(p) + deg(q) < n; when deg(p) + deg(q) >= n
\* its ifft does not have the coefficients of p * q.
C10_PointwiseMul ==
    \A k \in 1 .. Len(heap) :
        (/\ made[k].op = "mul"
         /\ made[made[k].self].op = "fft" /\ made[made[k].other].op = "fft") =>
            LET p  == heap[made[made[k].self].self]
                q  == heap[made[made[k].other].self]
                n  == Len(p.values)
                pq == polymul(p.values, q.values)
            IN  /\ heap[k].basis = LAGRANGE
                /\ IF Deg(p.values) + Deg(q.values) < n
                   THEN /\ heap[k] = fft(Polynomial(Pad(pq, n), MONOMIAL),
                                         FALSE).out.val
                        /\ ifft(heap[k]).out.val.values = Pad(pq, n)
                   ELSE trimseq(ifft(heap[k]).out.val.values) # pq

\* The transforms of a p of degree 2 and a q of degree 1 over 4 points have
\* been multiplied.
C10_Witness ==
    \E k \in 1 .. Len(heap) :
        /\ made[k].op = "mul" /\ made[k].self = 3 /\ made[k].other = 4
        /\ Len(heap[1].values) = 4
        /\ Deg(heap[1].values) = 2 /\ Deg(heap[2].values) = 1
        /\ heap[1].values[1] # 0 /\ heap[2].values[1] # 0

=============================================================================
